---- MODULE Spec2Model ----
(***************************************************************************)
(* Paired-samples t-test analyser (streamlit_app.py).                      *)
(*                                                                         *)
(* The state is what one browser session of the script holds: the uploaded *)
(* data frame, the two multiselect selections, and the position and the    *)
(* outputs of the run the "run analysis" button started.                   *)
(*                                                                         *)
(* Representation.                                                         *)
(*   cell     <<>> for a missing value (NaN), <<v>> for the number v       *)
(*   column   [name, vals]: vals is a sequence of cells                    *)
(*   frame    [index, cols]: index is the sequence of row labels, cols the *)
(*            sequence of columns (a frame may hold two columns with the   *)
(*            same name, as a pandas DataFrame may)                        *)
(*   number   [kind, sign, num, den]: "nan", "inf" (sign * infinity) or    *)
(*            "num" (the rational num/den in lowest terms, den > 0)        *)
(*   root     [kind, sign, num, den]: "nan", "inf", or "num", which here   *)
(*            stands for sign * sqrt(num/den)                              *)
(*   p-value  [kind, sign, num, den] with den = 10000: the p-value         *)
(*            rounded down to the grid 0, .01, .05, .10, 1 (exact at the   *)
(*            grid points, so a comparison with .05 is exact)              *)
(***************************************************************************)
EXTENDS Integers, Sequences, FiniteSets, TLC

VARIABLES df, pre_vars, post_vars, pc, i, temp_df, results, skipped, shown, prev

vars == <<df, pre_vars, post_vars, pc, i, temp_df, results, skipped, shown, prev>>

\* ------------------------------------------------------------------ bounds

\* rows of an uploaded table
NRows == 3
\* longest selection in one multiselect
MaxSel == 2

\* ----------------------------------------------------------------- numbers

Abs(x) == IF x < 0 THEN -x ELSE x

Sign(x) == IF x < 0 THEN -1 ELSE IF x = 0 THEN 0 ELSE 1

Min(a, b) == IF a < b THEN a ELSE b

RECURSIVE GCD(_, _)
GCD(a, b) == IF b = 0 THEN a ELSE GCD(b, a % b)

NaN == [kind |-> "nan", sign |-> 0, num |-> 0, den |-> 1]

Inf(s) == [kind |-> "inf", sign |-> s, num |-> 0, den |-> 1]

\* the rational n/d (d # 0) in lowest terms
Frac(n, d) ==
    LET g == GCD(Abs(n), Abs(d))
    IN  [kind |-> "num", sign |-> Sign(n) * Sign(d),
         num |-> Abs(n) \div g, den |-> Abs(d) \div g]

\* sign * sqrt(n/d), n/d >= 0
Root(s, n, d) ==
    LET q == Frac(n, d)
    IN  [kind |-> "num", sign |-> IF q.num = 0 THEN 0 ELSE s, num |-> q.num, den |-> q.den]

RECURSIVE SumSeq(_)
SumSeq(s) == IF s = <<>> THEN 0 ELSE Head(s) + SumSeq(Tail(s))

\* ------------------------------------------------------------ data frames

IsNA(c) == c = <<>>

\* the positions k, k+1, ... of the sequence of booleans keep that hold TRUE,
\* in increasing order
RECURSIVE Positions(_, _)
Positions(keep, k) ==
    IF k > Len(keep) THEN <<>>
    ELSE IF keep[k] THEN <<k>> \o Positions(keep, k + 1)
    ELSE Positions(keep, k + 1)

Take(s, pos) == [j \in 1..Len(pos) |-> s[pos[j]]]

RECURSIVE Flatten(_)
Flatten(ss) == IF ss = <<>> THEN <<>> ELSE Head(ss) \o Flatten(Tail(ss))

\* frame[name]: the columns of the frame with that name. One column is a
\* Series; two (a frame holding the name twice) are a DataFrame.
GetItem(frame, name) ==
    LET hit == SelectSeq(frame.cols, LAMBDA c : c.name = name)
    IN  [j \in 1..Len(hit) |-> hit[j].vals]

\* frame[[n1, n2]]: a new frame with the named columns, in the order asked
GetItemList(frame, names) ==
    [index |-> frame.index,
     cols |-> Flatten([j \in 1..Len(names) |->
                  SelectSeq(frame.cols, LAMBDA c : c.name = names[j])])]

HasColumn(frame, name) == \E k \in 1..Len(frame.cols) : frame.cols[k].name = name

\* frame.dropna(how = "all"): a row goes only when every value is missing
DropNA_all(frame) ==
    LET keep == Positions([r \in 1..Len(frame.index) |->
                        \E c \in 1..Len(frame.cols) : ~IsNA(frame.cols[c].vals[r])], 1)
    IN  [index |-> Take(frame.index, keep),
         cols |-> [c \in 1..Len(frame.cols) |->
                     [name |-> frame.cols[c].name, vals |-> Take(frame.cols[c].vals, keep)]]]

\* frame.dropna(): a new frame without the rows that miss any value
DropNA(frame) ==
    LET keep == Positions([r \in 1..Len(frame.index) |->
                        \A c \in 1..Len(frame.cols) : ~IsNA(frame.cols[c].vals[r])], 1)
    IN  [index |-> Take(frame.index, keep),
         cols |-> [c \in 1..Len(frame.cols) |->
                     [name |-> frame.cols[c].name, vals |-> Take(frame.cols[c].vals, keep)]]]

\* a dropna(inplace = True) on the source frame itself
SourceAfterSelect_inplace(frame, names) ==
    LET keep == Positions([r \in 1..Len(frame.index) |->
                        \A c \in 1..Len(frame.cols) :
                            frame.cols[c].name \in {names[j] : j \in 1..Len(names)}
                                => ~IsNA(frame.cols[c].vals[r])], 1)
    IN  [index |-> Take(frame.index, keep),
         cols |-> [c \in 1..Len(frame.cols) |->
                     [name |-> frame.cols[c].name, vals |-> Take(frame.cols[c].vals, keep)]]]

\* df after df[[pre_var, post_var]].dropna(): both calls return new frames
SourceAfterSelect(frame, names) == frame

\* ------------------------------------------------------------- statistics

\* the numbers of a column, missing values left out (pandas skipna)
Numbers(col) ==
    LET pos == Positions([k \in 1..Len(col) |-> ~IsNA(col[k])], 1)
    IN  [j \in 1..Len(pos) |-> col[pos[j]][1]]

\* Series.mean()
SeriesMean(col) ==
    LET x == Numbers(col)
    IN  IF Len(x) = 0 THEN NaN ELSE Frac(SumSeq(x), Len(x))

\* Series.std(): the sample standard deviation (ddof = 1)
SeriesStd(col) ==
    LET x == Numbers(col)
        n == Len(x)
        S == SumSeq(x)
        Q == SumSeq([k \in 1..n |-> x[k] * x[k]])
    IN  IF n < 2 THEN NaN ELSE Root(1, n * Q - S * S, n * (n - 1))

\* temp_df[name].mean(): a number for a Series, one number per column for a
\* DataFrame
Mean(block) ==
    IF Len(block) = 1 THEN SeriesMean(block[1])
    ELSE [c \in 1..Len(block) |-> SeriesMean(block[c])]

\* temp_df[name].std(), likewise
Std(block) ==
    IF Len(block) = 1 THEN SeriesStd(block[1])
    ELSE [c \in 1..Len(block) |-> SeriesStd(block[c])]

\* squares of the two-sided critical values of Student's t, in thousandths,
\* for 1..6 degrees of freedom (more degrees use the last entry)
Crit10 == <<39863, 8526, 5538, 4545, 4060, 3776>>

Crit05 == <<161448, 18513, 10128, 7709, 6608, 5987>>

Crit01 == <<4052181, 98503, 34116, 21198, 16258, 13745>>

\* a p-value of n ten-thousandths
PVal(n) == [kind |-> "num", sign |-> Sign(n), num |-> n, den |-> 10000]

\* the two-sided p-value of t with t^2 = num/den and dof degrees of freedom,
\* rounded down to the grid 0, .01, .05, .10, 1
PValue(num, den, dof) ==
    LET d == Min(dof, Len(Crit05))
    IN  IF num = 0 THEN PVal(10000)
        ELSE IF num * 1000 <= Crit10[d] * den THEN PVal(1000)
        ELSE IF num * 1000 <= Crit05[d] * den THEN PVal(500)
        ELSE IF num * 1000 <= Crit01[d] * den THEN PVal(100)
        ELSE PVal(0)

\* t^2 with the variance of the differences divided by n instead of n - 1
TSquared_population(S, Q, n) == Frac(S * S * n, n * Q - S * S)

\* t^2 = mean(d)^2 / (var(d) / n) with var(d) = (n Q - S^2) / (n (n - 1)),
\* S the sum and Q the sum of squares of the n differences
TSquared(S, Q, n) == Frac(S * S * (n - 1), n * Q - S * S)

\* ttest_rel on one pair of columns: [statistic, pvalue]
TTestColumn(x, y) ==
    LET n == Len(x)
        d == [k \in 1..n |-> IF IsNA(x[k]) \/ IsNA(y[k]) THEN 0 ELSE x[k][1] - y[k][1]]
        S == SumSeq(d)
        Q == SumSeq([k \in 1..n |-> d[k] * d[k]])
    IN  IF (\E k \in 1..n : IsNA(x[k]) \/ IsNA(y[k])) \/ n < 2
        THEN [statistic |-> NaN, pvalue |-> NaN]
        ELSE IF n * Q - S * S = 0
        THEN IF S = 0 THEN [statistic |-> NaN, pvalue |-> NaN]
             ELSE [statistic |-> Inf(Sign(S)), pvalue |-> PVal(0)]
        ELSE LET q == TSquared(S, Q, n)
             IN  [statistic |-> Root(Sign(S), q.num, q.den),
                  pvalue |-> PValue(q.num, q.den, n - 1)]

\* scipy.stats.ttest_rel(a, b) along axis 0: one [statistic, pvalue] per column
ttest_rel(a, b) == [c \in 1..Len(a) |-> TTestColumn(a[c], b[c])]

\* the significance threshold .05, in ten-thousandths
Alpha == 500

\* p < alpha; a comparison with NaN is False
LessThan(p, alpha) == p.kind = "num" /\ p.num < alpha

\* bool(p_value < 0.05) raises ValueError when p_value is an array of more
\* than one element
TruthRaises(tt) == Len(tt) > 1

SigLabel_le(p) == IF p.kind = "num" /\ p.num <= Alpha THEN "p < .05" ELSE "N.S."

SigLabel(p) == IF LessThan(p, Alpha) THEN "p < .05" ELSE "N.S."

\* ------------------------------------------------------------ the tables

\* the scores of the tables with two free columns
Scores == {0, 1}

Cells == {<<>>} \cup {<<v>> : v \in Scores}

Rows == 1..NRows

Column(n, v) == [name |-> n, vals |-> v]

Table(cols) == [index |-> [r \in Rows |-> r], cols |-> cols]

\* two free columns
PairTables ==
    {Table(<<Column("pre1", a), Column("post1", b)>>) :
        a \in [Rows -> Cells], b \in [Rows -> Cells]}

\* three columns, each with its first k scores present
Profile(n, r) ==
    IF n = "a" THEN 5 + ((r + 1) % 2) ELSE IF n = "b" THEN r ELSE 0

Prefix(n, k) == Column(n, [r \in Rows |-> IF r <= k THEN <<Profile(n, r)>> ELSE <<>>])

PrefixTables ==
    {Table(<<Prefix("a", ka), Prefix("b", kb), Prefix("c", kc)>>) :
        ka \in 0..NRows, kb \in 0..NRows, kc \in 0..NRows}

ScenarioTable ==
    [index |-> <<1, 2, 3, 4>>,
     cols |-> <<Column("pre1", << <<10>>, <<12>>, <<14>>, <<16>> >>),
                Column("post1", << <<12>>, <<13>>, <<15>>, <<20>> >>)>>]

Tables == PairTables \cup PrefixTables \cup {ScenarioTable}

\* ------------------------------------------------------------- the script

\* options = df.columns.tolist()
options == [k \in 1..Len(df.cols) |-> df.cols[k].name]

InSeq(x, s) == \E k \in 1..Len(s) : s[k] = x

Remove(s, x) == SelectSeq(s, LAMBDA y : y # x)

\* not pre_vars or not post_vars or len(pre_vars) != len(post_vars), without
\* the comparison of the lengths
Invalid_nolen(pre, post) == pre = <<>> \/ post = <<>>

Invalid(pre, post) == pre = <<>> \/ post = <<>> \/ Len(pre) # Len(post)

\* results = [] with the list of the previous run kept
NewResults_kept(old) == old

\* results = []
NewResults(old) == <<>>

\* zip(pre_vars, post_vars) stops at the shorter list
ZipLen == Min(Len(pre_vars), Len(post_vars))

\* what a finished run leaves on the page
Output == [pc |-> pc, results |-> results, skipped |-> skipped, shown |-> shown]

Init ==
    /\ df \in Tables
    /\ pre_vars = <<>>
    /\ post_vars = <<>>
    /\ pc = "idle"
    /\ i = 0
    /\ temp_df = <<>>
    /\ results = <<>>
    /\ skipped = <<>>
    /\ shown = FALSE
    /\ prev = <<>>

\* a change of a selection reruns the script with the button not pressed:
\* nothing of the last run stays on the page
Rerun ==
    /\ pc \in {"idle", "error", "done", "crashed"}
    /\ pc' = "idle"
    /\ i' = 0
    /\ temp_df' = <<>>
    /\ results' = <<>>
    /\ skipped' = <<>>
    /\ shown' = FALSE
    /\ prev' = <<>>
    /\ UNCHANGED df

SelectPre ==
    /\ Len(pre_vars) < MaxSel
    /\ \E c \in 1..Len(options) :
        /\ ~InSeq(options[c], pre_vars)
        /\ pre_vars' = Append(pre_vars, options[c])
    /\ UNCHANGED post_vars
    /\ Rerun

DeselectPre ==
    /\ \E c \in 1..Len(pre_vars) : pre_vars' = Remove(pre_vars, pre_vars[c])
    /\ UNCHANGED post_vars
    /\ Rerun

SelectPost ==
    /\ Len(post_vars) < MaxSel
    /\ \E c \in 1..Len(options) :
        /\ ~InSeq(options[c], post_vars)
        /\ post_vars' = Append(post_vars, options[c])
    /\ UNCHANGED pre_vars
    /\ Rerun

DeselectPost ==
    /\ \E c \in 1..Len(post_vars) : post_vars' = Remove(post_vars, post_vars[c])
    /\ UNCHANGED pre_vars
    /\ Rerun

\* the button: a new run of the script, up to the head of the loop
ClickRun ==
    /\ pc \in {"idle", "error", "done", "crashed"}
    /\ prev' = IF pc = "idle" THEN <<>> ELSE <<Output>>
    /\ temp_df' = <<>>
    /\ skipped' = <<>>
    /\ shown' = FALSE
    /\ IF Invalid(pre_vars, post_vars)
       THEN /\ pc' = "error"
            /\ i' = 0
            /\ results' = <<>>
       ELSE /\ pc' = "loop"
            /\ i' = 1
            /\ results' = NewResults(results)
    /\ UNCHANGED <<df, pre_vars, post_vars>>

\* one pass of the loop body
LoopStep ==
    /\ pc = "loop"
    /\ i <= ZipLen
    /\ LET pre_var == pre_vars[i]
           post_var == post_vars[i]
           names == <<pre_var, post_var>>
           tdf == DropNA(GetItemList(df, names))
           pre_data == GetItem(tdf, pre_var)
           post_data == GetItem(tdf, post_var)
           tt == ttest_rel(pre_data, post_data)
       IN  /\ df' = SourceAfterSelect(df, names)
           /\ IF ~HasColumn(df, pre_var) \/ ~HasColumn(df, post_var)
              THEN /\ pc' = "crashed"
                   /\ UNCHANGED <<i, temp_df, results, skipped>>
              ELSE /\ temp_df' = <<tdf>>
                   /\ IF Len(tdf.index) < 2
                      THEN /\ skipped' = Append(skipped, names)
                           /\ i' = i + 1
                           /\ UNCHANGED <<pc, results>>
                      ELSE IF TruthRaises(tt)
                      THEN /\ pc' = "crashed"
                           /\ UNCHANGED <<i, results, skipped>>
                      ELSE /\ results' = Append(results,
                                [pre_var |-> pre_var,
                                 post_var |-> post_var,
                                 pre_mean |-> Mean(pre_data),
                                 post_mean |-> Mean(post_data),
                                 pre_std |-> Std(pre_data),
                                 post_std |-> Std(post_data),
                                 t_stat |-> tt[1].statistic,
                                 p_value |-> tt[1].pvalue,
                                 sig |-> SigLabel(tt[1].pvalue)])
                           /\ i' = i + 1
                           /\ UNCHANGED <<pc, skipped>>
    /\ UNCHANGED <<pre_vars, post_vars, shown, prev>>

\* after the loop: the table and the charts, when there is a result
Render ==
    /\ pc = "loop"
    /\ i > ZipLen
    /\ pc' = "done"
    /\ shown' = (results # <<>>)
    /\ UNCHANGED <<df, pre_vars, post_vars, i, temp_df, results, skipped, prev>>

Next ==
    \/ SelectPre
    \/ DeselectPre
    \/ SelectPost
    \/ DeselectPost
    \/ ClickRun
    \/ LoopStep
    \/ Render

Spec == Init /\ [][Next]_vars

\* ------------------------------------------------------------- properties

\* the values of column name of the uploaded table
ColumnOf(name) ==
    df.cols[CHOOSE k \in 1..Len(df.cols) : df.cols[k].name = name].vals

\* the rows of the uploaded table that hold both a pre and a post value
CompleteRows(pre, post) ==
    {r \in 1..Len(df.index) : ColumnOf(pre)[r] # <<>> /\ ColumnOf(post)[r] # <<>>}

RECURSIVE SumOver(_, _)
SumOver(S, f) ==
    IF S = {} THEN 0
    ELSE LET r == CHOOSE x \in S : TRUE IN f[r] + SumOver(S \ {r}, f)

Pairs == [k \in 1..ZipLen |-> <<pre_vars[k], post_vars[k]>>]

RecordPairs == [k \in 1..Len(results) |-> <<results[k].pre_var, results[k].post_var>>]

IsPrefix(a, b) == Len(a) <= Len(b) /\ \A k \in 1..Len(a) : a[k] = b[k]

Finished == pc \in {"done", "crashed"}

\* the pair the loop worked on last
LastPair == IF pc = "crashed" THEN i ELSE i - 1

\* C1: a finished run on valid lists has one outcome per pair, a result record
\* or a skip entry and never both, the records in the order of the pairs, and
\* as many results and skips together as pairs.
C1_OneOutcomePerPair ==
    Finished =>
        /\ Len(results) + Len(skipped) = Len(pre_vars)
        /\ \A k \in 1..Len(Pairs) :
              InSeq(Pairs[k], RecordPairs) # InSeq(Pairs[k], skipped)
        /\ RecordPairs = SelectSeq(Pairs, LAMBDA q : ~InSeq(q, skipped))

\* The same for the runs that reach the end of the script.
OutcomesWhenDone ==
    pc = "done" =>
        /\ Len(results) + Len(skipped) = Len(pre_vars)
        /\ \A k \in 1..Len(Pairs) :
              InSeq(Pairs[k], RecordPairs) # InSeq(Pairs[k], skipped)
        /\ RecordPairs = SelectSeq(Pairs, LAMBDA q : ~InSeq(q, skipped))

\* C2: with an empty list or lists of different lengths the run ends in the
\* invalid-input error and leaves nothing: no pair processed, no result
\* record, no skip entry, no table.
C2_InvalidInputNoResult ==
    /\ (pre_vars = <<>> \/ post_vars = <<>> \/ Len(pre_vars) # Len(post_vars))
          => pc \in {"idle", "error"}
    /\ pc = "error" =>
          /\ pre_vars = <<>> \/ post_vars = <<>> \/ Len(pre_vars) # Len(post_vars)
          /\ results = <<>>
          /\ skipped = <<>>
          /\ temp_df = <<>>
          /\ i = 0
          /\ ~shown

C2_Witness == pc = "error" /\ Len(pre_vars) = 2 /\ Len(post_vars) = 1

\* C3: in a finished run every pair with fewer than 2 complete rows is in the
\* skip list and has no result record, and every pair after a skipped one
\* that has 2 complete rows or more has its result record.
C3_SkipDoesNotAbort ==
    Finished =>
        \A k \in 1..Len(Pairs) :
            LET n == Cardinality(CompleteRows(pre_vars[k], post_vars[k]))
            IN  /\ n < 2 => InSeq(Pairs[k], skipped) /\ ~InSeq(Pairs[k], RecordPairs)
                /\ (n >= 2 /\ \E j \in 1..(k - 1) : InSeq(Pairs[j], skipped))
                      => InSeq(Pairs[k], RecordPairs)

\* C5: the cleaned sample of the pair worked on last holds exactly the rows
\* of the table with both values present, in the order and with the values
\* of the table, both columns equally long; and the means, the standard
\* deviations and the statistic of every result record are those of exactly
\* these rows.
C5_CleanedSample ==
    /\ temp_df # <<>> =>
          LET f == temp_df[1]
              rows == CompleteRows(pre_vars[LastPair], post_vars[LastPair])
          IN  /\ Len(f.cols) = 2
              /\ f.cols[1].name = pre_vars[LastPair]
              /\ f.cols[2].name = post_vars[LastPair]
              /\ {f.index[j] : j \in 1..Len(f.index)} = rows
              /\ \A j \in 1..(Len(f.index) - 1) : f.index[j] < f.index[j + 1]
              /\ \A c \in 1..2 :
                    /\ Len(f.cols[c].vals) = Len(f.index)
                    /\ \A j \in 1..Len(f.index) :
                          f.cols[c].vals[j] = ColumnOf(f.cols[c].name)[f.index[j]]
    /\ \A j \in 1..Len(results) :
          LET r == results[j]
              rows == CompleteRows(r.pre_var, r.post_var)
              n == Cardinality(rows)
              x == [q \in rows |-> ColumnOf(r.pre_var)[q][1]]
              y == [q \in rows |-> ColumnOf(r.post_var)[q][1]]
              Sx == SumOver(rows, x)
              Sy == SumOver(rows, y)
              Qx == SumOver(rows, [q \in rows |-> x[q] * x[q]])
              Qy == SumOver(rows, [q \in rows |-> y[q] * y[q]])
              S == SumOver(rows, [q \in rows |-> x[q] - y[q]])
              Q == SumOver(rows, [q \in rows |-> (x[q] - y[q]) * (x[q] - y[q])])
              V == n * Q - S * S
          IN  /\ n >= 2
              /\ r.pre_mean.kind = "num"
              /\ r.pre_mean.sign * r.pre_mean.num * n = Sx * r.pre_mean.den
              /\ r.post_mean.kind = "num"
              /\ r.post_mean.sign * r.post_mean.num * n = Sy * r.post_mean.den
              /\ r.pre_std.kind = "num"
              /\ r.pre_std.num * n * (n - 1) = (n * Qx - Sx * Sx) * r.pre_std.den
              /\ r.post_std.kind = "num"
              /\ r.post_std.num * n * (n - 1) = (n * Qy - Sy * Sy) * r.post_std.den
              /\ (V = 0 /\ S = 0) => r.t_stat.kind = "nan"
              /\ (V = 0 /\ S # 0) =>
                    r.t_stat.kind = "inf" /\ r.t_stat.sign * S > 0
              /\ V # 0 =>
                    /\ r.t_stat.kind = "num"
                    /\ r.t_stat.sign * S >= 0
                    /\ r.t_stat.num * V = S * S * (n - 1) * r.t_stat.den

\* a finished run with a result computed without a row that holds a pre
\* value and no post value
C5_Witness ==
    /\ pc = "done"
    /\ \E j \in 1..Len(results) :
          \E q \in 1..Len(df.index) :
              /\ ColumnOf(results[j].pre_var)[q] # <<>>
              /\ ColumnOf(results[j].post_var)[q] = <<>>

\* C6: a result record is labelled significant exactly when its p-value is a
\* number below .05, and not significant otherwise (a p-value of .05 or more,
\* and NaN).
C6_SignificanceLabel ==
    \A j \in 1..Len(results) :
        LET r == results[j]
        IN  /\ r.sig \in {"p < .05", "N.S."}
            /\ r.sig = "p < .05" <=>
                  (r.p_value.kind = "num" /\ r.p_value.num * 100 < 5 * r.p_value.den)

\* one run with a significant record and a record whose p-value lies in
\* [.05, .10)
C6_Witness ==
    \E j, k \in 1..Len(results) :
        /\ results[j].sig = "p < .05"
        /\ results[k].sig = "N.S."
        /\ results[k].p_value.kind = "num"
        /\ results[k].p_value.num * 100 = 5 * results[k].p_value.den

\* the pre and the post value agree on every complete row
ZeroDifference(pre, post) ==
    \A r \in CompleteRows(pre, post) : ColumnOf(pre)[r] = ColumnOf(post)[r]

\* C7: a pair whose pre and post values agree on every complete row (the
\* same column chosen twice included) does not crash the run: the finished
\* run holds its one result record, with NaN for the statistic and the
\* p-value and the label not significant.
C7_ZeroDifferenceNoCrash ==
    Finished =>
        \A k \in 1..Len(Pairs) :
            (/\ ZeroDifference(pre_vars[k], post_vars[k])
             /\ Cardinality(CompleteRows(pre_vars[k], post_vars[k])) >= 2)
            => \E j \in 1..Len(results) :
                  /\ RecordPairs[j] = Pairs[k]
                  /\ results[j].t_stat.kind = "nan"
                  /\ results[j].p_value.kind = "nan"
                  /\ results[j].sig = "N.S."

\* The same for the pairs of two different columns.
ZeroDifferenceOfTwoColumns ==
    Finished =>
        \A k \in 1..Len(Pairs) :
            (/\ \A q \in 1..Len(Pairs) : pre_vars[q] # post_vars[q]
             /\ ZeroDifference(pre_vars[k], post_vars[k])
             /\ Cardinality(CompleteRows(pre_vars[k], post_vars[k])) >= 2)
            => \E j \in 1..Len(results) :
                  /\ RecordPairs[j] = Pairs[k]
                  /\ results[j].t_stat.kind = "nan"
                  /\ results[j].p_value.kind = "nan"
                  /\ results[j].sig = "N.S."

\* C8: a run on the table and the selections of the run before it ends with
\* the same outcome, the same result records and the same skip entries.
C8_SameInputsSameOutputs ==
    (pc \in {"done", "error", "crashed"} /\ prev # <<>>) => prev[1] = Output

C8_Witness ==
    /\ pc = "done"
    /\ prev # <<>>
    /\ results # <<>>
    /\ skipped # <<>>

\* C9: no step changes the uploaded table, and a step of the loop only
\* appends to the result records.
C9_DatasetNeverModified ==
    [][df' = df /\ (pc = "loop" => IsPrefix(results, results'))]_vars

\* a finished run with a result and a skip over a table with a missing value
C9_Witness ==
    /\ pc = "done"
    /\ results # <<>>
    /\ skipped # <<>>
    /\ \E c \in 1..Len(df.cols) : \E r \in 1..Len(df.index) : df.cols[c].vals[r] = <<>>

ScenarioRun ==
    /\ df = ScenarioTable
    /\ pre_vars = <<"pre1">>
    /\ post_vars = <<"post1">>
    /\ pc = "done"

ScenarioRecord ==
    /\ Len(results) = 1
    /\ skipped = <<>>
    /\ results[1].pre_var = "pre1"
    /\ results[1].post_var = "post1"
    /\ results[1].pre_mean = [kind |-> "num", sign |-> 1, num |-> 13, den |-> 1]
    /\ results[1].post_mean = [kind |-> "num", sign |-> 1, num |-> 15, den |-> 1]
    /\ results[1].t_stat = [kind |-> "num", sign |-> -1, num |-> 8, den |-> 1]
    /\ results[1].p_value.kind = "num"
    /\ results[1].p_value.num * 100 >= 5 * results[1].p_value.den
    /\ results[1].p_value.num * 100 < 10 * results[1].p_value.den
    /\ results[1].sig = "N.S."
    /\ Len(temp_df[1].index) = 4

\* C10 as stated: the scenario's one result record holds the means 13 and
\* 15, the statistic -sqrt(8) = mean(d) / (std(d) / sqrt(4)), the label of a
\* p-value of .05 or more, and the sample size n = 4.
C10_ScenarioWithSampleSize ==
    ScenarioRun =>
        /\ ScenarioRecord
        /\ "n" \in DOMAIN results[1]

\* C10, amended: the same record, computed over the 4 paired rows of the
\* cleaned sample; the record itself has no field for the sample size.
C10_Scenario ==
    ScenarioRun =>
        /\ ScenarioRecord
        /\ DOMAIN results[1] = {"pre_var", "post_var", "pre_mean", "post_mean",
                                "pre_std", "post_std", "t_stat", "p_value", "sig"}

C10_Witness == ScenarioRun /\ Len(results) = 1

====
